---- MODULE Spec2Model ----
(***************************************************************************)
(* BakeGuru Stock Manager (src/inventory_app.py).                          *)
(*                                                                         *)
(* Four specifications share the variables below:                          *)
(*   Spec       the guarded write helper exec_sql and the pages that write *)
(*              to the database (Add Stock, Save Changes, Diagnostics)     *)
(*   SpecFair   the callers of exec_sql under fair scheduling              *)
(*   SpecThumb  ensure_thumb_from_url called by concurrent sessions        *)
(*   SpecQuote  render_quote_pdf row by row, called with any small frame   *)
(*              or by the Quote Builder page; the Quotes History page and  *)
(*              Add to Draft of the View Stock page                        *)
(*                                                                         *)
(* Text is a sequence of one-character strings, so that str.strip() is a   *)
(* computation.  The file holds two revisions of the pages; Python binds   *)
(* the later definition of each name, which is the one the router calls,   *)
(* so the later revision (lines 380-698) is the one modelled.              *)
(***************************************************************************)
EXTENDS Integers, Sequences, FiniteSets, TLC

VARIABLES
    products,     \* rows of table products
    ping,         \* table _ping: [exists, rows]
    db_lock,      \* holder of _db_lock, or NoSession
    pc,           \* per session: position in its handler
    attempt,      \* per session: loop variable of exec_sql
    queue,        \* per session: statements the handler has still to pass to exec_sql
    txn,          \* per session: statement executed in the open transaction, or NoStmt
    outcome,      \* per session: how its last handler ended
    err,          \* per session: the last exception seen by exec_sql / raised to the caller
    sleeps,       \* per session: backoff waits of the current exec_sql call
    commits,      \* per session: COMMITs of the current exec_sql call
    last_write,   \* what the last committed statement did to table products
    files,        \* THUMB_DIR: state of each cache file
    thumb,        \* per session: its call of ensure_thumb_from_url
    succeeded,    \* the (url, key) of the calls that returned a thumbnail so far
    pdf,          \* the call of render_quote_pdf: its arguments, locals and output
    draft_cart,   \* st.session_state["draft_cart"]: the rows of the draft
    last_pdf,     \* st.session_state["last_pdf"]: the grand total of the stored PDF, or none
    quotes,       \* rows of table quotes
    page,         \* what the last run of a page showed
    history,      \* the rows the Quotes History page listed
    finalized,    \* number of carts for which Generate PDF produced a PDF
    show,         \* the cart shown, if the last run was the Quote Builder (line 555)
    merged,       \* the entries that run concatenated (line 546), before grouping
    view_stock    \* if the last run was View Stock: button, ticked rows, previous draft

dbVars == <<products, ping, db_lock, pc, attempt, queue, txn, outcome, err, sleeps, commits,
            last_write>>

thumbVars == <<files, thumb, succeeded>>

quoteVars == <<pdf, draft_cart, last_pdf, quotes, page, history, finalized, show, merged,
               view_stock>>

vars == <<dbVars, thumbVars, quoteVars>>

(***************************************************************************)
(* Bounds                                                                  *)
(***************************************************************************)
MaxEdited == 2        \* rows of the View Stock editor passed to Save Changes
MaxPing == 1          \* rows of table _ping
MaxItems == 2         \* rows of the items frame passed to render_quote_pdf
MaxQty == 2           \* quantity of a cart row
MaxFinalized == 1     \* carts finalized by Generate PDF

Sessions == {"s1", "s2"}
NoSession == "none"

(***************************************************************************)
(* Text                                                                    *)
(***************************************************************************)
None == <<"None">>    \* Python None in a text column (not a text: texts hold single characters)

RECURSIVE LStrip(_)
LStrip(s) == IF s = <<>> THEN s ELSE IF Head(s) = " " THEN LStrip(Tail(s)) ELSE s

RECURSIVE RStrip(_)
RStrip(s) ==
    IF s = <<>> THEN s
    ELSE IF s[Len(s)] = " " THEN RStrip(SubSeq(s, 1, Len(s) - 1)) ELSE s

\* str.strip()
Strip(s) == RStrip(LStrip(s))

(***************************************************************************)
(* sqlite3 exceptions.  msg is the message as a sequence of words; at is   *)
(* the attempt of exec_sql on which the exception occurred.                *)
(***************************************************************************)
NoErr == [cls |-> "none", msg |-> <<>>, at |-> 0]

ErrKinds == {
    [cls |-> "OperationalError", msg |-> <<"database", "is", "locked">>],
    [cls |-> "OperationalError", msg |-> <<"disk", "i/o", "error">>],
    [cls |-> "IntegrityError", msg |-> <<"not", "null", "constraint", "failed">>] }

Ok == [cls |-> "ok", msg |-> <<>>]

StepResults == {Ok} \cup ErrKinds

\* "locked" in str(e).lower()
HasLocked(e) == \E i \in 1..Len(e.msg) : e.msg[i] = "locked"

IsOperational(e) == e.cls = "OperationalError"

\* the database reported a lock conflict (SQLITE_BUSY / SQLITE_LOCKED)
IsLockConflict(e) == e.cls = "OperationalError" /\ e.msg = <<"database", "is", "locked">>

\* exec_sql, line 63: the condition under which the except clause retries
RetryNoLockedCheck(e, a) == IsOperational(e) /\ a < 4
RetrySixAttempts(e, a) == IsOperational(e) /\ HasLocked(e) /\ a < 5
Retries(e, a) == IsOperational(e) /\ HasLocked(e) /\ a < 4

(***************************************************************************)
(* Table products and the statements written to it                         *)
(***************************************************************************)
NoStmt == [kind |-> "none", row |-> <<>>, form |-> <<>>]

\* the Add / Update Product form, as typed
FormInputs == {
    [sku |-> <<"A">>, name |-> <<"x">>, category |-> <<"c">>, subcategory |-> <<"d">>,
     price |-> 1, image_url |-> <<"u">>, stock |-> 1],
    [sku |-> <<" ", "A">>, name |-> <<"y", " ">>, category |-> <<>>, subcategory |-> <<>>,
     price |-> 2, image_url |-> <<>>, stock |-> 0],
    [sku |-> <<>>, name |-> <<"x">>, category |-> <<>>, subcategory |-> <<>>,
     price |-> 1, image_url |-> <<>>, stock |-> 1],
    [sku |-> <<"B">>, name |-> <<>>, category |-> <<>>, subcategory |-> <<>>,
     price |-> 1, image_url |-> <<>>, stock |-> 1],
    [sku |-> <<" ">>, name |-> <<"w">>, category |-> <<>>, subcategory |-> <<>>,
     price |-> 0, image_url |-> <<>>, stock |-> 0] }

\* rows of the View Stock editor, as edited
EditInputs == {
    [sku |-> <<"A">>, name |-> <<"e">>, category |-> <<>>, subcategory |-> <<"d">>,
     price |-> 4, image_url |-> <<>>, stock |-> 3] }

EditedFrames == UNION {[1..n -> EditInputs] : n \in 0..MaxEdited}

\* page_add_stock, line 517: the parameters of the statement
AddStockParams(f) ==
    [sku |-> Strip(f.sku), name |-> Strip(f.name), category |-> Strip(f.category),
     subcategory |-> Strip(f.subcategory), price |-> f.price,
     image_url |-> Strip(f.image_url), stock |-> f.stock]

\* page_view_stock, line 470: the parameters of the UPDATE
SaveChangesParams(r) ==
    [sku |-> r.sku, name |-> r.name, category |-> r.category, subcategory |-> r.subcategory,
     price |-> r.price, image_url |-> (IF r.image_url = <<>> THEN None ELSE r.image_url),
     stock |-> r.stock]

\* INSERT ... ON CONFLICT(sku) DO UPDATE SET ..., lines 506-516, on primary key sku
UpsertIgnore(table, row) ==
    IF \E r \in table : r.sku = row.sku THEN table ELSE table \cup {row}
Upsert(table, row) ==
    IF \E r \in table : r.sku = row.sku
    THEN {IF r.sku = row.sku THEN row ELSE r : r \in table}
    ELSE table \cup {row}

\* UPDATE products SET ... WHERE sku=?, lines 467-469
Update(table, row) == {IF r.sku = row.sku THEN row ELSE r : r \in table}

ApplyStmt(table, stmt) ==
    CASE stmt.kind = "upsert" -> Upsert(table, stmt.row)
      [] stmt.kind = "update" -> Update(table, stmt.row)
      [] OTHER -> table

(***************************************************************************)
(* exec_sql, lines 53-66                                                   *)
(***************************************************************************)
InExecSql(s) == pc[s] \in {"attempt", "begun", "executed", "sleep"}

\* the handler of s calls exec_sql for the statements of q, one after the other
CallExecSql(s, q) ==
    /\ queue' = [queue EXCEPT ![s] = q]
    /\ pc' = [pc EXCEPT ![s] = "acquire"]
    /\ outcome' = [outcome EXCEPT ![s] = "running"]

\* a new script run of session s: nothing is left of the calls of the previous run
NewRun(s) ==
    /\ attempt' = [attempt EXCEPT ![s] = 0]
    /\ sleeps' = [sleeps EXCEPT ![s] = 0]
    /\ commits' = [commits EXCEPT ![s] = 0]
    /\ err' = [err EXCEPT ![s] = NoErr]

\* what statement stmt does to table: the kind of write
WriteKind(table, stmt) ==
    IF \E r \in table : r.sku = stmt.row.sku
    THEN (IF stmt.kind = "upsert" THEN "overwrite" ELSE "update")
    ELSE (IF stmt.kind = "upsert" THEN "insert" ELSE "update_none")

\* with _db_lock: (line 54), then attempt = 0 (line 55)
Acquire(s) ==
    /\ pc[s] = "acquire"
    /\ db_lock = NoSession
    /\ db_lock' = s
    /\ attempt' = [attempt EXCEPT ![s] = 0]
    /\ sleeps' = [sleeps EXCEPT ![s] = 0]
    /\ commits' = [commits EXCEPT ![s] = 0]
    /\ err' = [err EXCEPT ![s] = NoErr]
    /\ pc' = [pc EXCEPT ![s] = "attempt"]
    /\ UNCHANGED <<products, ping, queue, txn, outcome, last_write>>
    /\ UNCHANGED <<thumbVars, quoteVars>>

\* lines 62-66: exception e of class sqlite3.Error leaves the with db_conn block
\* (the connection is closed, line 50, which drops an open transaction) and
\* reaches the except clause, or passes it when it is no OperationalError
OnErrorKeepsLock(s, e) ==
    LET ex == [cls |-> e.cls, msg |-> e.msg, at |-> attempt[s]] IN
    /\ txn' = [txn EXCEPT ![s] = NoStmt]
    /\ err' = [err EXCEPT ![s] = ex]
    /\ IF Retries(e, attempt[s])
       THEN /\ pc' = [pc EXCEPT ![s] = "sleep"]
            /\ UNCHANGED <<db_lock, queue, outcome>>
       ELSE /\ pc' = [pc EXCEPT ![s] = "idle"]
            /\ UNCHANGED db_lock
            /\ queue' = [queue EXCEPT ![s] = <<>>]
            /\ outcome' = [outcome EXCEPT ![s] = "raised"]
    /\ UNCHANGED <<products, ping, attempt, sleeps, commits, last_write>>
OnError(s, e) ==
    LET ex == [cls |-> e.cls, msg |-> e.msg, at |-> attempt[s]] IN
    /\ txn' = [txn EXCEPT ![s] = NoStmt]
    /\ err' = [err EXCEPT ![s] = ex]
    /\ IF Retries(e, attempt[s])
       THEN /\ pc' = [pc EXCEPT ![s] = "sleep"]
            /\ UNCHANGED <<db_lock, queue, outcome>>
       ELSE /\ pc' = [pc EXCEPT ![s] = "idle"]
            /\ db_lock' = NoSession
            /\ queue' = [queue EXCEPT ![s] = <<>>]
            /\ outcome' = [outcome EXCEPT ![s] = "raised"]
    /\ UNCHANGED <<products, ping, attempt, sleeps, commits, last_write>>

\* lines 57-58: open the connection, PRAGMAs, BEGIN
Begin(s) ==
    /\ pc[s] = "attempt"
    /\ \E o \in StepResults :
         IF o = Ok
         THEN /\ pc' = [pc EXCEPT ![s] = "begun"]
              /\ UNCHANGED <<products, ping, db_lock, attempt, queue, txn, outcome, err,
                             sleeps, commits, last_write>>
         ELSE OnError(s, o)
    /\ UNCHANGED <<thumbVars, quoteVars>>

\* line 59: con.execute(sql, params)
Execute(s) ==
    /\ pc[s] = "begun"
    /\ \E o \in StepResults :
         IF o = Ok
         THEN /\ pc' = [pc EXCEPT ![s] = "executed"]
              /\ txn' = [txn EXCEPT ![s] = Head(queue[s])]
              /\ UNCHANGED <<products, ping, db_lock, attempt, queue, outcome, err,
                             sleeps, commits, last_write>>
         ELSE OnError(s, o)
    /\ UNCHANGED <<thumbVars, quoteVars>>

\* lines 60-61: COMMIT, close, return (the with _db_lock block is left)
CommitWithoutReturn(s) ==
    /\ pc[s] = "executed"
    /\ \E o \in StepResults :
         IF o = Ok
         THEN /\ products' = ApplyStmt(products, txn[s])
              /\ last_write' = WriteKind(products, txn[s])
              /\ txn' = [txn EXCEPT ![s] = NoStmt]
              /\ commits' = [commits EXCEPT ![s] = @ + 1]
              /\ IF attempt[s] < 4
                 THEN /\ attempt' = [attempt EXCEPT ![s] = @ + 1]
                      /\ pc' = [pc EXCEPT ![s] = "attempt"]
                      /\ UNCHANGED <<db_lock, queue, outcome>>
                 ELSE /\ attempt' = [attempt EXCEPT ![s] = 0]
                      /\ db_lock' = NoSession
                      /\ queue' = [queue EXCEPT ![s] = Tail(@)]
                      /\ IF Len(queue[s]) > 1
                         THEN /\ pc' = [pc EXCEPT ![s] = "acquire"]
                              /\ UNCHANGED outcome
                         ELSE /\ pc' = [pc EXCEPT ![s] = "idle"]
                              /\ outcome' = [outcome EXCEPT ![s] = "returned"]
              /\ UNCHANGED <<ping, sleeps, err>>
         ELSE OnError(s, o)
    /\ UNCHANGED <<thumbVars, quoteVars>>
Commit(s) ==
    /\ pc[s] = "executed"
    /\ \E o \in StepResults :
         IF o = Ok
         THEN /\ products' = ApplyStmt(products, txn[s])
              /\ last_write' = WriteKind(products, txn[s])
              /\ txn' = [txn EXCEPT ![s] = NoStmt]
              /\ commits' = [commits EXCEPT ![s] = @ + 1]
              /\ db_lock' = NoSession
              /\ queue' = [queue EXCEPT ![s] = Tail(@)]
              /\ IF Len(queue[s]) > 1
                 THEN /\ pc' = [pc EXCEPT ![s] = "acquire"]
                      /\ UNCHANGED outcome
                 ELSE /\ pc' = [pc EXCEPT ![s] = "idle"]
                      /\ outcome' = [outcome EXCEPT ![s] = "returned"]
              /\ attempt' = [attempt EXCEPT ![s] = 0]
              /\ sleeps' = [sleeps EXCEPT ![s] = 0]
              /\ err' = [err EXCEPT ![s] = NoErr]
              /\ UNCHANGED ping
         ELSE OnError(s, o)
    /\ UNCHANGED <<thumbVars, quoteVars>>

\* lines 64-65: time.sleep(0.25 * (attempt + 1)); continue
Sleep(s) ==
    /\ pc[s] = "sleep"
    /\ sleeps' = [sleeps EXCEPT ![s] = @ + 1]
    /\ attempt' = [attempt EXCEPT ![s] = @ + 1]
    /\ pc' = [pc EXCEPT ![s] = "attempt"]
    /\ UNCHANGED <<products, ping, db_lock, queue, txn, outcome, err, commits, last_write>>
    /\ UNCHANGED <<thumbVars, quoteVars>>

(***************************************************************************)
(* Pages that write                                                        *)
(***************************************************************************)
\* page_add_stock, lines 500-519: the form is submitted
PageAddStock(s) ==
    /\ pc[s] = "idle"
    /\ \E f \in FormInputs :
         IF f.sku = <<>> \/ f.name = <<>>
         THEN /\ outcome' = [outcome EXCEPT ![s] = "rejected"]
              /\ UNCHANGED <<pc, queue>>
         ELSE CallExecSql(s, <<[kind |-> "upsert", row |-> AddStockParams(f), form |-> f]>>)
    /\ NewRun(s)
    /\ UNCHANGED <<products, ping, db_lock, txn, last_write>>
    /\ UNCHANGED <<thumbVars, quoteVars>>

\* page_view_stock, lines 464-472: Save Changes
SaveChanges(s) ==
    /\ pc[s] = "idle"
    /\ \E edited \in EditedFrames :
         IF edited = <<>>
         THEN /\ outcome' = [outcome EXCEPT ![s] = "returned"]
              /\ UNCHANGED <<pc, queue>>
         ELSE CallExecSql(s, [i \in 1..Len(edited) |->
                                [kind |-> "update", row |-> SaveChangesParams(edited[i]),
                                 form |-> edited[i]]])
    /\ NewRun(s)
    /\ UNCHANGED <<products, ping, db_lock, txn, last_write>>
    /\ UNCHANGED <<thumbVars, quoteVars>>

\* page_diagnostics, lines 651-653: db_conn() is entered and CREATE TABLE is issued
DiagStart(s) ==
    /\ pc[s] = "idle"
    /\ ping.rows + Cardinality({t \in Sessions : pc[t] \in {"diag_create", "diag_insert"}}) < MaxPing
    /\ pc' = [pc EXCEPT ![s] = "diag_create"]
    /\ outcome' = [outcome EXCEPT ![s] = "running"]
    /\ NewRun(s)
    /\ UNCHANGED <<products, ping, db_lock, queue, txn, last_write>>
    /\ UNCHANGED <<thumbVars, quoteVars>>

\* lines 653-654: CREATE TABLE IF NOT EXISTS _ping completes, INSERT is issued;
\* lines 656-657: any exception ends the block with an error message
DiagCreate(s) ==
    /\ pc[s] = "diag_create"
    /\ \E o \in StepResults :
         IF o = Ok
         THEN /\ ping' = [ping EXCEPT !.exists = TRUE]
              /\ pc' = [pc EXCEPT ![s] = "diag_insert"]
              /\ UNCHANGED outcome
         ELSE /\ pc' = [pc EXCEPT ![s] = "idle"]
              /\ outcome' = [outcome EXCEPT ![s] = "diag_failed"]
              /\ UNCHANGED ping
    /\ UNCHANGED <<products, db_lock, attempt, queue, txn, err, sleeps, commits, last_write>>
    /\ UNCHANGED <<thumbVars, quoteVars>>

\* lines 654-657: INSERT INTO _ping DEFAULT VALUES completes (autocommit)
DiagInsert(s) ==
    /\ pc[s] = "diag_insert"
    /\ \E o \in StepResults :
         IF o = Ok
         THEN /\ ping' = [ping EXCEPT !.rows = @ + 1]
              /\ outcome' = [outcome EXCEPT ![s] = "diag_ok"]
         ELSE /\ outcome' = [outcome EXCEPT ![s] = "diag_failed"]
              /\ UNCHANGED ping
    /\ pc' = [pc EXCEPT ![s] = "idle"]
    /\ UNCHANGED <<products, db_lock, attempt, queue, txn, err, sleeps, commits, last_write>>
    /\ UNCHANGED <<thumbVars, quoteVars>>


(***************************************************************************)
(* ensure_thumb_from_url, lines 123-147                                    *)
(***************************************************************************)
UrlNone == None                   \* url is None
UrlU == <<"u">>                   \* a URL that serves an image
UrlBad == <<"!">>                 \* a malformed URL
ThumbUrls == {UrlNone, UrlU, UrlBad}
ThumbKeys == {"A", "A_pdf"}       \* key as page_view_stock and Generate PDF pass it for sku A
AllKeys == {"A", "A_q", "A_pdf"}  \* lines 421 and 561, 541, 593 and 220

\* line 134: range(3)
FetchAttempts == 3

\* line 125: hashlib.sha1(url.encode("utf-8")).hexdigest()[:16]
UrlHash(url) == CASE url = UrlU -> "h1" [] url = UrlBad -> "h2"

\* lines 126-127: the cache file of (url, key)
CachePath(url, key) == <<key, UrlHash(url)>>

Paths == {CachePath(u, k) : u \in ThumbUrls \ {UrlNone}, k \in AllKeys}

NoResult == <<"none">>            \* the call has not returned
NoneResult == <<"None", "None">>  \* return None, None

NoCall ==
    [pc |-> "idle", url |-> UrlNone, key |-> "A", refresh |-> FALSE, attempt |-> 0,
     fetches |-> 0, img |-> "none", result |-> NoResult, prior |-> {},
     read_partial |-> FALSE, overlapped |-> FALSE]

ThumbInit ==
    /\ files = [p \in Paths |-> "absent"]
    /\ thumb = [s \in Sessions |-> NoCall]
    /\ succeeded = {}

\* line 129: (not refresh) and os.path.exists(cache_path)
CacheHitInverted(refresh, file) == refresh /\ file # "absent"
CacheHit(refresh, file) == (~refresh) /\ file # "absent"

\* line 146: except Exception
CaughtOuterFetchOnly(exc) == exc \in {"RequestException", "OSError"}
CaughtOuter(exc) == TRUE

\* requests.get / raise_for_status / Image.open / thumbnail, lines 136-139:
\* failure, an image JPEG can encode, or an image in a mode JPEG cannot encode
FetchOutcomes(url) == IF url = UrlU THEN {"fail", "rgb", "rgba"} ELSE {"fail"}

ThumbPath(s) == CachePath(thumb[s].url, thumb[s].key)

Writing(s) == thumb[s].pc = "write"

\* the call returns r: its locals are gone
ThumbReturn(c, r) ==
    [c EXCEPT !.pc = "done", !.result = r, !.attempt = 0, !.img = "none", !.overlapped = FALSE]

\* lines 146-147: exception exc reaches the outer except clause
ThumbExcept(c, exc) ==
    IF CaughtOuter(exc)
    THEN ThumbReturn(c, NoneResult)
    ELSE [c EXCEPT !.pc = "raised"]

\* lines 142-145: the attempt failed; sleep, next attempt, or raise last_err
ThumbRetry(c) ==
    IF c.attempt + 1 < FetchAttempts
    THEN [c EXCEPT !.pc = "fetch", !.attempt = @ + 1]
    ELSE ThumbExcept(c, "RequestException")

\* lines 123-127: the call is entered; url.encode raises when url is None
ThumbCall(s) ==
    /\ thumb[s].pc \in {"idle", "done"}
    /\ \E url \in ThumbUrls, key \in ThumbKeys, refresh \in BOOLEAN :
         LET c == [NoCall EXCEPT !.url = url, !.key = key, !.refresh = refresh,
                                 !.prior = succeeded]
         IN  thumb' = [thumb EXCEPT ![s] =
                          IF url = UrlNone THEN ThumbExcept(c, "AttributeError")
                          ELSE [c EXCEPT !.pc = "check"]]
    /\ UNCHANGED <<files, succeeded>>
    /\ UNCHANGED <<dbVars, quoteVars>>

\* line 129
ThumbCheck(s) ==
    /\ thumb[s].pc = "check"
    /\ thumb' = [thumb EXCEPT ![s] =
                    IF CacheHit(thumb[s].refresh, files[ThumbPath(s)])
                    THEN [@ EXCEPT !.pc = "read"]
                    ELSE [@ EXCEPT !.pc = "fetch", !.attempt = 0]]
    /\ UNCHANGED <<files, succeeded>>
    /\ UNCHANGED <<dbVars, quoteVars>>

\* lines 130-131: Image.open(cache_path) and _pil_to_data_url
ThumbRead(s) ==
    /\ thumb[s].pc = "read"
    /\ thumb' = [thumb EXCEPT ![s] =
                    IF files[ThumbPath(s)] = "complete"
                    THEN ThumbReturn(@, ThumbPath(s))
                    ELSE ThumbExcept([@ EXCEPT !.read_partial = TRUE], "UnidentifiedImageError")]
    /\ UNCHANGED <<files, succeeded>>
    /\ UNCHANGED <<dbVars, quoteVars>>

\* lines 136-140: fetch and decode; on success save() opens the cache file for writing
ThumbFetchGuarded(s) ==
    /\ thumb[s].pc = "fetch"
    /\ \A t \in Sessions \ {s} :
         ~(thumb[t].pc \in {"fetch", "write"} /\ ThumbPath(t) = ThumbPath(s))
    /\ \E o \in FetchOutcomes(thumb[s].url) :
         LET c == [thumb[s] EXCEPT !.fetches = @ + 1]
             racing == \E t \in Sessions \ {s} : Writing(t) /\ ThumbPath(t) = ThumbPath(s)
         IN  IF o = "fail"
             THEN /\ thumb' = [thumb EXCEPT ![s] = ThumbRetry(c)]
                  /\ UNCHANGED files
             ELSE /\ thumb' = [t \in Sessions |->
                                 IF t = s
                                 THEN [c EXCEPT !.pc = "write", !.img = o, !.overlapped = racing]
                                 ELSE IF Writing(t) /\ ThumbPath(t) = ThumbPath(s)
                                      THEN [thumb[t] EXCEPT !.overlapped = TRUE]
                                      ELSE thumb[t]]
                  /\ files' = [files EXCEPT ![ThumbPath(s)] = "partial"]
    /\ UNCHANGED succeeded
    /\ UNCHANGED <<dbVars, quoteVars>>
ThumbFetch(s) ==
    /\ thumb[s].pc = "fetch"
    /\ \E o \in FetchOutcomes(thumb[s].url) :
         LET c == [thumb[s] EXCEPT !.fetches = @ + 1]
             racing == \E t \in Sessions \ {s} : Writing(t) /\ ThumbPath(t) = ThumbPath(s)
         IN  IF o = "fail"
             THEN /\ thumb' = [thumb EXCEPT ![s] = ThumbRetry(c)]
                  /\ UNCHANGED files
             ELSE /\ thumb' = [t \in Sessions |->
                                 IF t = s
                                 THEN [c EXCEPT !.pc = "write", !.img = o, !.overlapped = racing]
                                 ELSE IF Writing(t) /\ ThumbPath(t) = ThumbPath(s)
                                      THEN [thumb[t] EXCEPT !.overlapped = TRUE]
                                      ELSE thumb[t]]
                  /\ files' = [files EXCEPT ![ThumbPath(s)] = "partial"]
    /\ UNCHANGED succeeded
    /\ UNCHANGED <<dbVars, quoteVars>>

\* lines 140-141: save() ends, then _pil_to_data_url(im, "JPEG") encodes the
\* unconverted image, which raises for a mode JPEG cannot hold.  Two writers of
\* one file leave it readable or not.
ThumbSave(s) ==
    /\ thumb[s].pc = "write"
    /\ \E saved \in BOOLEAN, intact \in BOOLEAN :
         LET others == \E t \in Sessions \ {s} : Writing(t) /\ ThumbPath(t) = ThumbPath(s)
             file == IF (~saved) \/ others THEN "partial"
                     ELSE IF thumb[s].overlapped /\ ~intact THEN "partial"
                     ELSE "complete"
         IN  /\ (intact = FALSE) => (saved /\ thumb[s].overlapped /\ ~others)
             /\ files' = [files EXCEPT ![ThumbPath(s)] = file]
             /\ IF saved /\ thumb[s].img = "rgb"
                THEN /\ thumb' = [thumb EXCEPT ![s] = ThumbReturn(@, ThumbPath(s))]
                     /\ succeeded' = succeeded \cup {<<thumb[s].url, thumb[s].key>>}
                ELSE /\ thumb' = [thumb EXCEPT ![s] = ThumbRetry(@)]
                     /\ UNCHANGED succeeded
    /\ UNCHANGED <<dbVars, quoteVars>>

ThumbNext ==
    \E s \in Sessions :
        \/ ThumbCall(s)
        \/ ThumbCheck(s)
        \/ ThumbRead(s)
        \/ ThumbFetch(s)
        \/ ThumbSave(s)



(***************************************************************************)
(* A whole call of ensure_thumb_from_url with no other call in progress:   *)
(* the cache files and the result it can leave                             *)
(***************************************************************************)
EnsureThumbSeq(fs, url, key, refresh) ==
    IF url = UrlNone THEN {[files |-> fs, result |-> NoneResult]}
    ELSE
      LET p == CachePath(url, key) IN
      IF CacheHit(refresh, fs[p])
      THEN {[files |-> fs, result |-> IF fs[p] = "complete" THEN p ELSE NoneResult]}
      ELSE IF FetchOutcomes(url) = {"fail"}
      THEN {[files |-> fs, result |-> NoneResult]}
      ELSE {[files |-> fs, result |-> NoneResult],
            [files |-> [fs EXCEPT ![p] = "partial"], result |-> NoneResult],
            [files |-> [fs EXCEPT ![p] = "complete"], result |-> NoneResult],
            [files |-> [fs EXCEPT ![p] = "complete"], result |-> p]}

(***************************************************************************)
(* render_quote_pdf, lines 174-242                                         *)
(***************************************************************************)
\* a cell of the items frame: an integer, None, NaN (the null of a numeric
\* column), or Missing when the frame has no such column
IntCell(n) == [t |-> "int", v |-> n]
NoneCell == [t |-> "None", v |-> 0]
NaNCell == [t |-> "NaN", v |-> 0]
MissingCell == [t |-> "Missing", v |-> 0]

QtyCells == {NoneCell, NaNCell, IntCell(2)}
PriceCells == {NoneCell, NaNCell, IntCell(3)}

NullPath == <<"null">>     \* thumb_path / image_url is null
PdfPath == CachePath(UrlU, "A_pdf")

\* (image_url, thumb_path) of a row
ImageCells == {<<UrlNone, NullPath>>, <<UrlU, NullPath>>, <<UrlU, PdfPath>>}

ItemRows ==
    {[sku |-> <<"A">>, qty |-> q, price |-> pr, image_url |-> im[1], thumb_path |-> im[2]] :
        q \in QtyCells \cup {MissingCell}, pr \in PriceCells \cup {MissingCell}, im \in ImageCells}

\* a frame has a column or not: the cells of a column are Missing in all rows or in none
IsFrame(items) ==
    \A i, j \in 1..Len(items) :
        /\ (items[i].qty = MissingCell) <=> (items[j].qty = MissingCell)
        /\ (items[i].price = MissingCell) <=> (items[j].price = MissingCell)

Frames == {items \in UNION {[1..n -> ItemRows] : n \in 0..MaxItems} : IsFrame(items)}

\* r.get(col, 0) or 0: None and 0 are falsy, NaN is truthy
OrZero(c) == IF c.t \in {"None", "Missing"} THEN IntCell(0) ELSE c

\* numbers of the renderer: an integer value or nan
Number(n) == [nan |-> FALSE, v |-> n]
NaN == [nan |-> TRUE, v |-> 0]

\* float(x), for x an integer or NaN
Float(c) == IF c.t = "NaN" THEN NaN ELSE Number(c.v)

\* qty * price (qty an int) and total + line_total
Times(n, x) == IF x.nan THEN NaN ELSE Number(n * x.v)
Plus(x, y) == IF x.nan \/ y.nan THEN NaN ELSE Number(x.v + y.v)

NoRender ==
    [pc |-> "idle", caller |-> "none", items |-> <<>>, i |-> 0, total |-> Number(0),
     lines |-> <<>>, grand |-> <<>>]

\* lines 178-200: the call is entered, the header is printed, total = 0.0
RenderEnter(caller, items) ==
    [pc |-> "rows", caller |-> caller, items |-> items, i |-> 1, total |-> Number(0),
     lines |-> <<>>, grand |-> <<>>]

\* lines 206-235: one iteration of the loop over items.iterrows();
\* int(NaN) raises ValueError at line 207
PdfRow ==
    /\ pdf.pc = "rows"
    /\ pdf.i <= Len(pdf.items)
    /\ LET r == pdf.items[pdf.i]
           q == OrZero(r.qty)
           price == Float(OrZero(r.price))
           line_total == Times(q.v, price)
       IN  IF q.t = "NaN"
           THEN /\ pdf' = [pdf EXCEPT !.pc = "raised"]
                /\ UNCHANGED files
           ELSE /\ pdf' = [pdf EXCEPT !.i = @ + 1,
                                      !.total = Plus(@, line_total),
                                      !.lines = Append(@, line_total)]
                /\ IF r.thumb_path = NullPath /\ r.image_url # UrlNone
                   THEN \E o \in EnsureThumbSeq(files, r.image_url, "A_pdf", FALSE) :
                            files' = o.files
                   ELSE UNCHANGED files
    /\ UNCHANGED <<thumb, succeeded, draft_cart, last_pdf, quotes, page, history, finalized>>
    /\ UNCHANGED <<show, merged, view_stock>>
    /\ UNCHANGED dbVars

\* lines 237-242: the footer with the grand total, and the bytes are returned
PdfFooterLastRow ==
    /\ pdf.pc = "rows"
    /\ pdf.i > Len(pdf.items)
    /\ pdf' = IF pdf.items = <<>> THEN [pdf EXCEPT !.pc = "raised"]
              ELSE [pdf EXCEPT !.pc = "done", !.grand = <<pdf.total>>]
    /\ UNCHANGED <<files, thumb, succeeded, draft_cart, last_pdf, quotes, page, history,
                   finalized, show, merged, view_stock>>
    /\ UNCHANGED dbVars
PdfFooter ==
    /\ pdf.pc = "rows"
    /\ pdf.i > Len(pdf.items)
    /\ pdf' = [pdf EXCEPT !.pc = "done", !.grand = <<pdf.total>>]
    /\ UNCHANGED <<files, thumb, succeeded, draft_cart, last_pdf, quotes, page, history,
                   finalized, show, merged, view_stock>>
    /\ UNCHANGED dbVars

(***************************************************************************)
(* Quote Builder and Quotes History, lines 524-630                         *)
(***************************************************************************)
\* the product the pages of SpecQuote read from table products: the row the
\* first form of FormInputs stores
Catalog == {[sku |-> <<"A">>, name |-> <<"x">>, category |-> <<"c">>, subcategory |-> <<"d">>,
             price |-> 1, image_url |-> UrlU, stock |-> 1]}

\* f"{sku}", f"{sku}_q", f"{sku}_pdf" for the sku of the catalog
ThumbKey(sku, suffix) ==
    CASE suffix = "" -> "A" [] suffix = "_q" -> "A_q" [] suffix = "_pdf" -> "A_pdf"

\* the thumb_path a call result gives
PathOf(result) == IF result = NoneResult THEN NullPath ELSE result

\* ensure_thumb_from_url for each row of rows in turn (lines 539-542, 557-562, 591-594)
RECURSIVE ThumbForRows(_, _, _)
ThumbForRows(fs, rows, suffix) ==
    IF rows = <<>> THEN {[files |-> fs, paths |-> <<>>]}
    ELSE UNION {
           {[files |-> rest.files, paths |-> <<PathOf(o.result)>> \o rest.paths] :
               rest \in ThumbForRows(o.files, Tail(rows), suffix)} :
           o \in EnsureThumbSeq(fs, Head(rows).image_url, ThumbKey(Head(rows).sku, suffix), FALSE)}

\* lines 532-534: a picked product as a cart row, qty = 1
ExtraRow(prod, path) ==
    [sku |-> prod.sku, name |-> prod.name, price |-> IntCell(prod.price), qty |-> IntCell(1),
     image_url |-> prod.image_url, thumb_path |-> path]

\* the columns a frame is grouped by, line 548
GroupKey(r) ==
    [sku |-> r.sku, name |-> r.name, price |-> r.price, image_url |-> r.image_url,
     thumb_path |-> r.thumb_path]

\* ["qty"].sum(): nulls are skipped
RECURSIVE SumQty(_, _)
SumQty(rows, k) ==
    IF rows = <<>> THEN 0
    ELSE (IF GroupKey(Head(rows)) = k /\ Head(rows).qty.t = "int" THEN Head(rows).qty.v ELSE 0)
         + SumQty(Tail(rows), k)

\* the group keys in sorted order: a null thumb_path sorts last
RECURSIVE SortKeys(_)
SortKeys(ks) ==
    IF ks = {} THEN <<>>
    ELSE LET k == IF \E x \in ks : x.thumb_path # NullPath
                  THEN CHOOSE x \in ks : x.thumb_path # NullPath
                  ELSE CHOOSE x \in ks : TRUE
         IN  <<k>> \o SortKeys(ks \ {k})

\* line 548: groupby([sku, name, price, image_url, thumb_path], dropna=False)["qty"].sum()
GroupBy(rows) ==
    LET ks == SortKeys({GroupKey(rows[i]) : i \in 1..Len(rows)})
    IN  [i \in 1..Len(ks) |->
            [sku |-> ks[i].sku, name |-> ks[i].name, price |-> ks[i].price,
             qty |-> IntCell(SumQty(rows, ks[i])), image_url |-> ks[i].image_url,
             thumb_path |-> ks[i].thumb_path]]

\* line 566: the editor shows the cart without column thumb_path
EditorRows(rows) == [i \in 1..Len(rows) |-> [rows[i] EXCEPT !.thumb_path = NullPath]]

\* the user's edit of the quantity of the first row
CartEdits == {"keep", "clear", "two"}
Edited(rows, edit) ==
    CASE edit = "keep" -> rows
      [] edit = "clear" -> [rows EXCEPT ![1].qty = NaNCell]
      [] edit = "two" -> [rows EXCEPT ![1].qty = IntCell(2)]

NoPdf == <<>>

\* no run of the View Stock page yet
NoViewStock == [button |-> "none", sel |-> <<>>, draft_prev |-> <<>>]

QuoteIdle ==
    /\ draft_cart = <<>>
    /\ last_pdf = NoPdf
    /\ quotes = <<>>
    /\ page = "none"
    /\ history = <<>>
    /\ finalized = 0
    /\ show = <<>>
    /\ merged = <<>>
    /\ view_stock = NoViewStock

\* page_quote_builder, lines 524-613: one run of the page with the products
\* picked in "Add more items", the edit of the cart and the button pressed
PageQuoteBuilder ==
    /\ pdf.pc = "idle"
    /\ \E pick \in SUBSET Catalog, edit \in CartEdits,
          button \in {"none", "generate", "save", "clear"} :
       \E t1 \in ThumbForRows(files, IF pick = {} THEN <<>>
                                      ELSE <<ExtraRow(CHOOSE pr \in pick : TRUE, NullPath)>>, "_q") :
         LET extra == IF pick = {} THEN <<>>
                      ELSE <<ExtraRow(CHOOSE pr \in pick : TRUE, t1.paths[1])>>
             concat == draft_cart \o extra
             all_rows == IF concat = <<>> THEN concat ELSE GroupBy(concat)
         IN  /\ merged' = concat
             /\ show' = all_rows
             /\ view_stock' = NoViewStock
             /\ IF all_rows = <<>>
                THEN /\ page' = "info_empty"
                     /\ files' = t1.files
                     /\ UNCHANGED <<pdf, draft_cart, last_pdf, finalized>>
                ELSE /\ \A i \in 1..Len(all_rows) : all_rows[i].qty.v <= MaxQty
                     /\ \E t2 \in ThumbForRows(t1.files, all_rows, "") :
                          LET cart == Edited(EditorRows(all_rows), edit) IN
                          CASE button = "none" ->
                                 /\ page' = "cart_shown"
                                 /\ files' = t2.files
                                 /\ UNCHANGED <<pdf, draft_cart, last_pdf, finalized>>
                            [] button = "generate" ->
                                 /\ finalized < MaxFinalized
                                 /\ \E t3 \in ThumbForRows(t2.files, cart, "_pdf") :
                                      /\ files' = t3.files
                                      /\ pdf' = RenderEnter("quote_builder",
                                            [i \in 1..Len(cart) |->
                                               [cart[i] EXCEPT !.thumb_path = t3.paths[i]]])
                                 /\ page' = "rendering"
                                 /\ UNCHANGED <<draft_cart, last_pdf, finalized>>
                            [] button = "save" ->
                                 /\ page' = "draft_saved"
                                 /\ draft_cart' = cart
                                 /\ files' = t2.files
                                 /\ UNCHANGED <<pdf, last_pdf, finalized>>
                            [] button = "clear" ->
                                 /\ page' = "draft_cleared"
                                 /\ draft_cart' = <<>>
                                 /\ files' = t2.files
                                 /\ UNCHANGED <<pdf, last_pdf, finalized>>
    /\ UNCHANGED <<thumb, succeeded, quotes, history>>
    /\ UNCHANGED dbVars

\* lines 598-603: render_quote_pdf has returned to Generate PDF, or raised
GenerateEnd ==
    /\ pdf.caller = "quote_builder"
    /\ pdf.pc \in {"done", "raised"}
    /\ IF pdf.pc = "done"
       THEN /\ last_pdf' = pdf.grand
            /\ page' = "pdf_generated"
            /\ finalized' = finalized + 1
       ELSE /\ page' = "pdf_failed"
            /\ UNCHANGED <<last_pdf, finalized>>
    /\ pdf' = NoRender
    /\ UNCHANGED <<files, thumb, succeeded, draft_cart, quotes, history, show, merged,
                   view_stock>>
    /\ UNCHANGED dbVars

\* page_quotes_history, lines 628-630
PageQuotesHistory ==
    /\ pdf.pc = "idle"
    /\ history' = quotes
    /\ page' = "history"
    /\ show' = <<>>
    /\ merged' = <<>>
    /\ view_stock' = NoViewStock
    /\ UNCHANGED <<files, thumb, succeeded, pdf, draft_cart, last_pdf, quotes, finalized>>
    /\ UNCHANGED dbVars

(***************************************************************************)
(* View Stock, lines 405-462: the thumbnails, the editor, Add to Draft     *)
(***************************************************************************)
\* line 406: the rows of table products as a frame (the pages do not depend
\* on the order ORDER BY name gives the rows)
RECURSIVE QueryProducts(_)
QueryProducts(table) ==
    IF table = {} THEN <<>>
    ELSE LET r == CHOOSE x \in table : TRUE
         IN  <<r>> \o QueryProducts(table \ {r})

\* lines 416-423: ensure_thumb_from_url(url, sku, refresh) for each row with a URL
RECURSIVE ViewStockThumbs(_, _, _)
ViewStockThumbs(fs, rows, refresh) ==
    IF rows = <<>> THEN {[files |-> fs, paths |-> <<>>]}
    ELSE LET r == Head(rows)
             url == IF r.image_url = None THEN <<>> ELSE Strip(r.image_url)
             first == IF url = <<>> THEN {[files |-> fs, result |-> NoneResult]}
                      ELSE EnsureThumbSeq(fs, url, ThumbKey(r.sku, ""), refresh)
         IN  UNION {
               {[files |-> rest.files, paths |-> <<PathOf(o.result)>> \o rest.paths] :
                   rest \in ViewStockThumbs(o.files, Tail(rows), refresh)} :
               o \in first}

\* line 431: the columns of the frame given to st.data_editor, which it returns as edited
EditedColumns ==
    {"select", "thumb", "sku", "name", "category", "subcategory", "price", "stock", "image_url"}

\* line 457: the columns Add to Draft takes from the ticked rows
AddColumns == {"sku", "name", "price", "image_url", "thumb_path"}

\* lines 457-458: a ticked row as a cart row, qty = 1
AddRow(prod, path) ==
    [sku |-> prod.sku, name |-> prod.name, price |-> IntCell(prod.price), qty |-> IntCell(1),
     image_url |-> prod.image_url, thumb_path |-> path]

\* page_view_stock, lines 405-462: one run of the page with the rows ticked in
\* the editor and the button pressed (Save Changes is action SaveChanges)
PageViewStock ==
    /\ pdf.pc = "idle"
    /\ \E ticked \in SUBSET products, button \in {"none", "refresh", "add"} :
         LET df == QueryProducts(products)
             sel == SelectSeq(df, LAMBDA r : r \in ticked)
         IN  \E t \in ViewStockThumbs(files, df, button = "refresh") :
               /\ files' = t.files
               /\ view_stock' = [button |-> button, sel |-> sel, draft_prev |-> draft_cart]
               /\ IF button # "add"
                  THEN /\ page' = "stock_shown"
                       /\ UNCHANGED draft_cart
                  ELSE IF sel = <<>>
                  THEN /\ page' = "info_no_rows"
                       /\ UNCHANGED draft_cart
                  ELSE IF ~(AddColumns \subseteq EditedColumns)
                  THEN /\ page' = "key_error"       \* line 457 raises KeyError
                       /\ UNCHANGED draft_cart
                  ELSE /\ page' = "added"
                       /\ draft_cart' =
                            GroupBy(draft_cart \o
                                    SelectSeq([i \in 1..Len(df) |-> AddRow(df[i], t.paths[i])],
                                              LAMBDA r : \E pr \in ticked : pr.sku = r.sku))
    /\ show' = <<>>
    /\ merged' = <<>>
    /\ UNCHANGED <<thumb, succeeded, pdf, last_pdf, quotes, history, finalized>>
    /\ UNCHANGED dbVars

QuoteNext ==
    \/ PdfRow
    \/ PdfFooter
    \/ PageQuoteBuilder
    \/ GenerateEnd
    \/ PageQuotesHistory
    \/ PageViewStock

(***************************************************************************)
(* Spec: the database after the schema script (line 108), sessions idle    *)
(***************************************************************************)
DbIdle ==
    /\ ping = [exists |-> FALSE, rows |-> 0]
    /\ db_lock = NoSession
    /\ pc = [s \in Sessions |-> "idle"]
    /\ attempt = [s \in Sessions |-> 0]
    /\ queue = [s \in Sessions |-> <<>>]
    /\ txn = [s \in Sessions |-> NoStmt]
    /\ outcome = [s \in Sessions |-> "none"]
    /\ err = [s \in Sessions |-> NoErr]
    /\ sleeps = [s \in Sessions |-> 0]
    /\ commits = [s \in Sessions |-> 0]
    /\ last_write = "none"

DbInit ==
    /\ products = {}
    /\ DbIdle

Init ==
    /\ DbInit
    /\ ThumbInit
    /\ pdf = NoRender
    /\ QuoteIdle

Next ==
    \E s \in Sessions :
        \/ PageAddStock(s)
        \/ SaveChanges(s)
        \/ Acquire(s)
        \/ Begin(s)
        \/ Execute(s)
        \/ Commit(s)
        \/ Sleep(s)
        \/ DiagStart(s)
        \/ DiagCreate(s)
        \/ DiagInsert(s)

Spec == Init /\ [][Next]_vars

\* SpecFair: the callers of exec_sql (Add Stock, Save Changes) under fair
\* scheduling.  A thread that can take its next step in exec_sql eventually
\* takes it (the statements and time.sleep return), and a thread waiting on
\* _db_lock that finds the lock free again and again eventually gets it.
\* Users need never submit anything.
NextFair ==
    \E s \in Sessions :
        \/ PageAddStock(s)
        \/ SaveChanges(s)
        \/ Acquire(s)
        \/ Begin(s)
        \/ Execute(s)
        \/ Commit(s)
        \/ Sleep(s)

Fairness ==
    \A s \in Sessions :
        /\ SF_vars(Acquire(s))
        /\ WF_vars(Begin(s))
        /\ WF_vars(Execute(s))
        /\ WF_vars(Commit(s))
        /\ WF_vars(Sleep(s))

SpecFair == Init /\ [][NextFair]_vars /\ Fairness

\* SpecQuote: render_quote_pdf called with any frame of at most MaxItems rows,
\* or the pages of one session used on the catalog
QuoteInit ==
    /\ products = Catalog
    /\ DbIdle
    /\ ThumbInit
    /\ QuoteIdle
    /\ \/ pdf = NoRender
       \/ \E items \in Frames : pdf = RenderEnter("direct", items)

SpecQuote == QuoteInit /\ [][QuoteNext]_vars

\* SpecThumb: sessions calling ensure_thumb_from_url on an empty cache
SpecThumb == Init /\ [][ThumbNext]_vars

(***************************************************************************)
(* Claims about Spec                                                       *)
(***************************************************************************)
\* session s commits the upsert of page_add_stock in this step
CommitsUpsert(s) ==
    /\ pc[s] = "executed"
    /\ txn[s].kind = "upsert"
    /\ commits'[s] = commits[s] + 1

\* the row the form f stands for: every text field trimmed
FormRow(f, r) ==
    /\ r.sku = Strip(f.sku) /\ r.name = Strip(f.name)
    /\ r.category = Strip(f.category) /\ r.subcategory = Strip(f.subcategory)
    /\ r.price = f.price /\ r.image_url = Strip(f.image_url) /\ r.stock = f.stock

UniqueSku == \A r1, r2 \in products : r1.sku = r2.sku => r1 = r2

UpsertStep ==
    \A s \in Sessions :
        CommitsUpsert(s) =>
            LET f == txn[s].form
                old == {r \in products : r.sku = Strip(f.sku)}
                new == {r \in products' : r.sku = Strip(f.sku)}
            IN  /\ Cardinality(new) = 1
                /\ \A r \in new : FormRow(f, r)
                /\ products' \ new = products \ old
                /\ Cardinality(products') =
                       IF old = {} THEN Cardinality(products) + 1 ELSE Cardinality(products)

\* C1: after any sequence of Add / Update Product submissions table products
\* holds at most one row per SKU; a submission that page_add_stock accepts and
\* exec_sql commits overwrites the row of an existing SKU with the submitted
\* (trimmed) name, category, subcategory, price, image_url and stock and leaves
\* the number of rows unchanged, and adds exactly one row for a new SKU; a
\* submission that is rejected or whose write raises leaves the table as it was.
C1_UpsertNoDuplicate ==
    /\ []UniqueSku
    /\ [][UpsertStep]_vars
    /\ [][products' # products => \E s \in Sessions : pc[s] = "executed" /\ pc'[s] # "executed"]_vars

\* C1 witness: an Add / Update Product submission has overwritten an existing SKU
C1_Witness ==
    /\ last_write = "overwrite"
    /\ \E r \in products : r.sku = <<"A">> /\ r.name = <<"y">> /\ r.image_url = <<>>

\* C2: an exec_sql call whose attempts all fail with a lock conflict makes
\* exactly five attempts (attempt 0..4), never a sixth, and raises the lock
\* error of the fifth attempt; a lock conflict on attempts 1 to 4 is followed
\* by a backoff wait and another attempt, not by a raise.
C2_FiveAttemptsThenRaise ==
    \A s \in Sessions :
        /\ attempt[s] \in 0..4
        /\ (outcome[s] = "raised" /\ IsLockConflict(err[s])) =>
               (err[s].at = 4 /\ attempt[s] = 4 /\ sleeps[s] = 4 /\ pc[s] = "idle")
        /\ (InExecSql(s) /\ IsLockConflict(err[s]) /\ err[s].at < 4) =>
               \/ pc[s] = "sleep" /\ attempt[s] = err[s].at
               \/ pc[s] # "sleep" /\ attempt[s] = err[s].at + 1
        /\ (InExecSql(s) /\ pc[s] # "sleep" /\ attempt[s] > 0) =>
               (IsLockConflict(err[s]) /\ err[s].at = attempt[s] - 1)

\* C2 witness: a call has raised the lock error of its fifth attempt
C2_Witness ==
    \E s \in Sessions :
        outcome[s] = "raised" /\ IsLockConflict(err[s]) /\ err[s].at = 4 /\ sleeps[s] = 4

\* a write to the database file is in progress in session s: its transaction
\* is open (BEGIN .. COMMIT), or a statement of the Diagnostics page is running
InWrite(s) == pc[s] \in {"begun", "executed", "diag_create", "diag_insert"}

\* C3: every write to the database file (product upsert, Save Changes update,
\* the Diagnostics page's CREATE TABLE and INSERT) runs while its session
\* holds _db_lock, so no two in-process writes are in progress at once.
C3_WritesHoldDbLock ==
    /\ \A s \in Sessions : InWrite(s) => db_lock = s
    /\ \A s, t \in Sessions : (InWrite(s) /\ InWrite(t)) => s = t

\* C4: an error of exec_sql that is no lock conflict is raised to the caller
\* at once, on whichever attempt it occurs: no further attempt and no backoff
\* wait follow it.
C4_NonLockPropagates ==
    \A s \in Sessions :
        (err[s] # NoErr /\ ~IsLockConflict(err[s])) =>
            /\ pc[s] = "idle" /\ outcome[s] = "raised"
            /\ attempt[s] = err[s].at
            /\ sleeps[s] = err[s].at
            /\ db_lock # s

\* C4 witness: a non-lock OperationalError on the third attempt was raised
C4_Witness ==
    \E s \in Sessions :
        /\ outcome[s] = "raised" /\ err[s].cls = "OperationalError"
        /\ ~IsLockConflict(err[s]) /\ err[s].at = 2 /\ sleeps[s] = 2

\* the exec_sql call of session s ends in this step by raising / by returning
Raises(s) == InExecSql(s) /\ pc'[s] = "idle" /\ outcome'[s] = "raised"

Returns(s) == InExecSql(s) /\ pc'[s] \in {"idle", "acquire"} /\ ~Raises(s)

ExecSqlStep ==
    \A s \in Sessions :
        /\ Returns(s) =>
               /\ commits[s] = 0 /\ commits'[s] = 1
               /\ products' = ApplyStmt(products, Head(queue[s]))
        /\ Raises(s) =>
               /\ commits[s] = 0 /\ commits'[s] = 0
               /\ products' = products /\ ping' = ping
        /\ (db_lock = s /\ ~Returns(s)) => products' = products
        /\ (InExecSql(s) /\ commits'[s] # commits[s]) => Returns(s)

\* C13: an exec_sql call is all-or-nothing and applies its statement at most
\* once.  The step in which a call returns is the one COMMIT of the call: it
\* applies the statement of the call to the table, and no COMMIT precedes or
\* follows it within the call.  A call that raises, on whichever attempt and
\* for whichever error, has committed nothing, and no step between its start
\* and its raise changes the table: the content is the one before the call.
C13_AllOrNothing ==
    /\ [][ExecSqlStep]_vars
    /\ [](\A s \in Sessions : commits[s] <= 1 /\ (InExecSql(s) => commits[s] = 0))

\* C13 witness: one call has returned after its single COMMIT and another has
\* raised the lock error of its fifth attempt, on a table that holds a row
C13_Witness ==
    \E s, t \in Sessions :
        /\ outcome[s] = "raised" /\ IsLockConflict(err[s]) /\ err[s].at = 4
        /\ outcome[t] = "returned" /\ commits[t] = 1
        /\ products # {}

\* session s waits on _db_lock at line 54
Waiting(s) == pc[s] = "acquire"

LockHeldForCall ==
    \A s \in Sessions :
        /\ InExecSql(s) => (db_lock = s /\ attempt[s] \in 0..4 /\ sleeps[s] \in 0..4)
        /\ pc[s] = "sleep" => (db_lock = s /\ sleeps[s] < 4)
        /\ ~InExecSql(s) => db_lock # s

ReleasedOnExit ==
    \A s \in Sessions : (Returns(s) \/ Raises(s)) => (db_lock = s /\ db_lock' = NoSession)

ThumbDone(s) == thumb[s].pc = "done"

\* C5 as stated: a call without refresh that follows a successful call with
\* the same URL returns the cached file and performs no network fetch.
C5_SameUrlServedFromCache ==
    \A s \in Sessions :
        (/\ ThumbDone(s) /\ ~thumb[s].refresh
         /\ \E k \in ThumbKeys : <<thumb[s].url, k>> \in thumb[s].prior) =>
            (thumb[s].fetches = 0 /\ thumb[s].result \in Paths)

\* C5, amended: a call without refresh that follows a successful call with the
\* same URL and the same key performs no network fetch; it returns the cached
\* file of that URL and key, or (None, None) when the file is not readable at
\* the time it is opened because another call is rewriting it.
C5_SameUrlAndKeyServedFromCache ==
    \A s \in Sessions :
        (/\ thumb[s].pc \in {"read", "fetch", "write", "done", "raised"}
         /\ ~thumb[s].refresh
         /\ <<thumb[s].url, thumb[s].key>> \in thumb[s].prior) =>
            /\ thumb[s].fetches = 0
            /\ thumb[s].pc \in {"read", "done"}
            /\ ThumbDone(s) =>
                   \/ thumb[s].result = ThumbPath(s)
                   \/ thumb[s].result = NoneResult /\ thumb[s].read_partial

\* C5 witness: a second call for the same URL and key was served from the cache
C5_Witness ==
    \E s \in Sessions :
        /\ ThumbDone(s) /\ ~thumb[s].refresh
        /\ <<thumb[s].url, thumb[s].key>> \in thumb[s].prior
        /\ thumb[s].result = ThumbPath(s) /\ thumb[s].fetches = 0

\* C6: ensure_thumb_from_url never raises; a call that is not served from the
\* cache and whose fetch attempts all fail makes exactly three fetch attempts
\* and returns (None, None); a null or malformed URL and an unreadable cached
\* file yield (None, None) as well.
C6_NeverRaises ==
    \A s \in Sessions :
        /\ thumb[s].pc # "raised"
        /\ thumb[s].fetches <= 3
        /\ (ThumbDone(s) /\ thumb[s].url = UrlNone) =>
               (thumb[s].result = NoneResult /\ thumb[s].fetches = 0)
        /\ (ThumbDone(s) /\ thumb[s].url = UrlBad) =>
               (thumb[s].result = NoneResult /\ thumb[s].fetches = 3)
        /\ (ThumbDone(s) /\ thumb[s].read_partial) =>
               (thumb[s].result = NoneResult /\ thumb[s].fetches = 0)
        /\ (ThumbDone(s) /\ thumb[s].result = NoneResult) => thumb[s].fetches \in {0, 3}
        /\ (ThumbDone(s) /\ thumb[s].result = NoneResult /\ thumb[s].fetches = 0) =>
               (thumb[s].url = UrlNone \/ thumb[s].read_partial)

\* C6 witness: three failed fetch attempts of a served URL ended in (None, None)
C6_Witness ==
    \E s \in Sessions :
        /\ ThumbDone(s) /\ thumb[s].url = UrlU /\ thumb[s].result = NoneResult
        /\ thumb[s].fetches = 3 /\ files[ThumbPath(s)] = "absent"

\* C7: the thumbnail cache has no concurrency guard: a session that found the
\* cache file missing is never kept from fetching, and one that fetched is
\* never kept from writing the file, whatever the other sessions do.
C7_NoConcurrencyGuard ==
    \A s \in Sessions :
        /\ thumb[s].pc = "check" => ENABLED ThumbCheck(s)
        /\ thumb[s].pc = "fetch" => ENABLED ThumbFetch(s)
        /\ thumb[s].pc = "write" => ENABLED ThumbSave(s)

\* C7 witness: two sessions called with the same key and the same uncached
\* URL, both passed the existence check, both fetched, and both are writing
\* the same cache file
C7_Witness ==
    \E s, t \in Sessions :
        /\ s # t
        /\ thumb[s].url = thumb[t].url /\ thumb[s].key = thumb[t].key
        /\ ~thumb[s].refresh /\ ~thumb[t].refresh
        /\ Writing(s) /\ Writing(t)
        /\ thumb[s].fetches >= 1 /\ thumb[t].fetches >= 1
        /\ thumb[s].overlapped /\ thumb[t].overlapped

(***************************************************************************)
(* Claims about SpecQuote                                                  *)
(***************************************************************************)
\* the value of a cell when a missing or null cell counts as 0
CellValue(c) == IF c.t = "int" THEN c.v ELSE 0

RECURSIVE SumOfLines(_)
SumOfLines(items) ==
    IF items = <<>> THEN 0
    ELSE CellValue(Head(items).qty) * CellValue(Head(items).price) + SumOfLines(Tail(items))

\* C8: render_quote_pdf prints, for every row, the line total quantity x price
\* and in the footer the sum of the line totals, each row counted once; a
\* missing or null quantity or price counts as 0.
C8_LineTotalsAndGrandTotal ==
    (pdf.pc \in {"done", "raised"}) =>
        /\ pdf.pc = "done"
        /\ Len(pdf.lines) = Len(pdf.items)
        /\ \A i \in 1..Len(pdf.items) :
               pdf.lines[i] = Number(CellValue(pdf.items[i].qty) * CellValue(pdf.items[i].price))
        /\ pdf.grand = <<Number(SumOfLines(pdf.items))>>

\* C9: render_quote_pdf called with an empty item list does not raise and
\* prints a grand total of 0; the Quote Builder page with an empty cart shows
\* its hint and returns: it never passes an empty cart to the renderer and
\* reports no failed PDF generation for one.
C9_EmptyQuoteTotalZero ==
    /\ []((pdf.pc # "idle" /\ pdf.items = <<>>) =>
            /\ pdf.pc \in {"rows", "done"}
            /\ pdf.lines = <<>>
            /\ pdf.pc = "done" => pdf.grand = <<Number(0)>>)
    /\ [](pdf.caller = "quote_builder" => pdf.items # <<>>)
    /\ [](page = "info_empty" => (draft_cart = <<>> /\ pdf.pc = "idle"))
    /\ [][page' = "pdf_failed" => pdf.items # <<>>]_vars

\* C9 witness: the renderer has finished an empty item list with grand total 0
C9_Witness ==
    pdf.pc = "done" /\ pdf.items = <<>> /\ pdf.grand = <<Number(0)>> /\ pdf.lines = <<>>

\* C10: every cart finalized by Generate PDF has added exactly one row to
\* table quotes, and no row of it is changed or removed afterwards, so the
\* Quotes History page lists one entry per finalized cart.
C10_OneQuoteRowPerFinalizedCart ==
    /\ Len(quotes) = finalized
    /\ page = "history" => Len(history) = finalized

(***************************************************************************)
(* Claims about the draft cart (SpecQuote)                                 *)
(***************************************************************************)
\* the rows of a frame that carry SKU sku
RowsOfSku(rows, sku) == {i \in 1..Len(rows) : rows[i].sku = sku}

\* the sum of the quantities of the rows of a frame that carry SKU sku
RECURSIVE QtyOfSku(_, _)
QtyOfSku(rows, sku) ==
    IF rows = <<>> THEN 0
    ELSE (IF Head(rows).sku = sku THEN CellValue(Head(rows).qty) ELSE 0)
         + QtyOfSku(Tail(rows), sku)

\* C11: the cart the Quote Builder shows has at most one row per SKU, and the
\* quantity of that row is the sum of the quantities of all the entries of the
\* SKU that the page merged (the draft and the newly picked items).
C11_CartOneRowPerSku ==
    \A i \in 1..Len(show) :
        /\ RowsOfSku(show, show[i].sku) = {i}
        /\ show[i].qty = IntCell(QtyOfSku(merged, show[i].sku))

\* the last run was a run of the View Stock page with Add to Draft pressed
AddToDraftPressed ==
    /\ view_stock.button = "add"
    /\ page \in {"added", "key_error", "info_no_rows"}

\* C12: Add to Draft with at least one row ticked completes without error and
\* leaves every ticked product in the draft with its quantity one more than in
\* the previous draft (1 if it was not there); with no row ticked the draft is
\* unchanged.
C12_AddToDraftAddsOne ==
    AddToDraftPressed =>
        IF view_stock.sel = <<>>
        THEN draft_cart = view_stock.draft_prev
        ELSE /\ page = "added"
             /\ \A i \in 1..Len(view_stock.sel) :
                    LET sku == view_stock.sel[i].sku IN
                    /\ Cardinality(RowsOfSku(draft_cart, sku)) = 1
                    /\ QtyOfSku(draft_cart, sku) = QtyOfSku(view_stock.draft_prev, sku) + 1

====
